---------------------------- MODULE Spec2Model ----------------------------
(***************************************************************************)
(* Badread command line front end (src/badread/badread.py): main()         *)
(* dispatches on the sub-command and, for 'simulate', runs                 *)
(* check_simulate_args() before handing the configuration to simulate().   *)
(*                                                                         *)
(* Text is modelled as a sequence of one-character strings, so that        *)
(* str.lower(), str.split(',') and float(str) are computed character by    *)
(* character.  A Python float is a record [k, v]: k = "num" with the       *)
(* value v, or one of the IEEE specials "nan", "inf", "ninf".  Numbers are *)
(* whole: the texts of the model use the alphabet of digits, sign, blank   *)
(* and letters only (no '.', exponent or '_').                             *)
(***************************************************************************)
EXTENDS Integers, Sequences, FiniteSets, TLC

VARIABLES
    argv,       \* sys.argv[1:]: cmd, the first word ("" when there is none); opts, the
                \* texts of the options given; complete, whether the options the
                \* sub-command requires (--reference, ...) are all given
    fs,         \* the paths that are regular files (pathlib.Path.is_file)
    settings,   \* the settings module: MIN_MEAN_READ_LENGTH, MIN_MEAN_READ_IDENTITY
    pc,         \* the position of main() / check_simulate_args()
    args,       \* the argparse namespace
    stderr,     \* the messages written to stderr, in order
    exit_code,  \* -1 while running, else the process exit status
    evaluated,  \* the checks of check_simulate_args evaluated so far, in order
    invoked     \* the entry points called, in order, each with the args it got

vars == <<argv, fs, settings, pc, args, stderr, exit_code, evaluated, invoked>>

(***************************************************************************)
(* Bounds of the model.                                                    *)
(***************************************************************************)
\* The most values a comma-separated option carries beyond those it needs.
MaxExtra == 1

(***************************************************************************)
(* Python floats.                                                          *)
(***************************************************************************)
Num(n) == [k |-> "num", v |-> n]
NaN == [k |-> "nan", v |-> 0]
Inf == [k |-> "inf", v |-> 0]
NInf == [k |-> "ninf", v |-> 0]
\* float(x) raised ValueError
ValueError == [k |-> "ValueError", v |-> 0]
\* an attribute check_simulate_args has not set yet
Unset == [k |-> "unset", v |-> 0]

\* a > b on floats: False whenever either side is NaN
Gt(a, b) ==
    CASE a.k = "nan" \/ b.k = "nan" -> FALSE
      [] a.k = "inf" -> b.k # "inf"
      [] a.k = "ninf" -> FALSE
      [] b.k = "inf" -> FALSE
      [] b.k = "ninf" -> TRUE
      [] OTHER -> a.v > b.v

\* a < b
Lt(a, b) == Gt(b, a)

\* a <= b: False whenever either side is NaN
Le(a, b) == a.k # "nan" /\ b.k # "nan" /\ ~Gt(a, b)

\* a >= b
Ge(a, b) == Le(b, a)

\* a + b
Add(a, b) ==
    CASE a.k = "nan" \/ b.k = "nan" -> NaN
      [] a.k = "inf" -> IF b.k = "ninf" THEN NaN ELSE Inf
      [] a.k = "ninf" -> IF b.k = "inf" THEN NaN ELSE NInf
      [] b.k = "inf" -> Inf
      [] b.k = "ninf" -> NInf
      [] OTHER -> Num(a.v + b.v)

(***************************************************************************)
(* Text.                                                                   *)
(***************************************************************************)
Digits == <<"0", "1", "2", "3", "4", "5", "6", "7", "8", "9">>

IsDigit(c) == \E i \in 1..10 : Digits[i] = c

DigitValue(c) == (CHOOSE i \in 1..10 : Digits[i] = c) - 1

Upper == <<"A", "B", "C", "D", "E", "F", "G", "H", "I", "J", "K", "L", "M",
           "N", "O", "P", "Q", "R", "S", "T", "U", "V", "W", "X", "Y", "Z">>

LowerLetters == <<"a", "b", "c", "d", "e", "f", "g", "h", "i", "j", "k", "l", "m",
                  "n", "o", "p", "q", "r", "s", "t", "u", "v", "w", "x", "y", "z">>

LowerChar(c) ==
    IF \E i \in 1..26 : Upper[i] = c
    THEN LowerLetters[CHOOSE i \in 1..26 : Upper[i] = c]
    ELSE c

\* str.lower()
Lower(s) == [i \in 1..Len(s) |-> LowerChar(s[i])]

\* str.strip(): float() ignores leading and trailing blanks
RECURSIVE LStrip(_)
LStrip(s) == IF s # <<>> /\ Head(s) = " " THEN LStrip(Tail(s)) ELSE s

RECURSIVE RStrip(_)
RStrip(s) ==
    IF s # <<>> /\ s[Len(s)] = " " THEN RStrip(SubSeq(s, 1, Len(s) - 1)) ELSE s

Strip(s) == LStrip(RStrip(s))

\* the value of a non-empty run of decimal digits
RECURSIVE DigitsValue(_)
DigitsValue(s) ==
    IF Len(s) = 1 THEN DigitValue(s[1])
    ELSE 10 * DigitsValue(SubSeq(s, 1, Len(s) - 1)) + DigitValue(s[Len(s)])

AllDigits(s) == s # <<>> /\ \A i \in 1..Len(s) : IsDigit(s[i])

\* float() of a text without sign
FloatUnsigned(s) ==
    CASE Lower(s) = <<"n", "a", "n">> -> NaN
      [] Lower(s) = <<"i", "n", "f">> -> Inf
      [] AllDigits(s) -> Num(DigitsValue(s))
      [] OTHER -> ValueError

Negate(x) ==
    CASE x.k = "num" -> Num(0 - x.v)
      [] x.k = "inf" -> NInf
      [] x.k = "ninf" -> Inf
      [] OTHER -> x

\* float(x) for a str x
Float(x) ==
    LET s == Strip(x) IN
    CASE s = <<>> -> ValueError
      [] Head(s) = "-" -> Negate(FloatUnsigned(Tail(s)))
      [] Head(s) = "+" -> FloatUnsigned(Tail(s))
      [] OTHER -> FloatUnsigned(s)

\* the index of the first c in s, 0 when there is none
RECURSIVE Find(_, _, _)
Find(s, c, i) ==
    IF i > Len(s) THEN 0 ELSE IF s[i] = c THEN i ELSE Find(s, c, i + 1)

\* str.split(sep) for a one-character sep: never empty, '' splits to ['']
RECURSIVE Split(_, _)
Split(s, sep) ==
    LET i == Find(s, sep, 1) IN
    IF i = 0 THEN <<s>>
    ELSE <<SubSeq(s, 1, i - 1)>> \o Split(SubSeq(s, i + 1, Len(s)), sep)

\* [float(x) for x in s.split(',')], an element that float() rejects kept as
\* ValueError
FloatList(s) ==
    LET parts == Split(s, ",") IN [i \in 1..Len(parts) |-> Float(parts[i])]

\* whether the list comprehension raises ValueError
RaisesValueError(s) ==
    LET vals == FloatList(s) IN \E i \in 1..Len(vals) : vals[i] = ValueError

(***************************************************************************)
(* simulate_subparser: the options of 'simulate' that check_simulate_args  *)
(* reads, with their defaults.                                             *)
(***************************************************************************)
FloatOptions == {"junk_reads", "random_reads", "chimeras"}

StrOptions == {"length", "identity", "error_model", "glitches"}

OptionNames == FloatOptions \cup StrOptions

\* default='10000,9000'
DefaultLength == <<"1", "0", "0", "0", "0", ",", "9", "0", "0", "0">>

\* default='85,95,4'
DefaultIdentity == <<"8", "5", ",", "9", "5", ",", "4">>

\* default='random'
DefaultErrorModel == <<"r", "a", "n", "d", "o", "m">>

\* default='5000,50,50'
DefaultGlitches == <<"5", "0", "0", "0", ",", "5", "0", ",", "5", "0">>

\* default=1 of --junk_reads, --random_reads and --chimeras
DefaultPercent == Num(1)

StrDefault(name) ==
    CASE name = "length" -> DefaultLength
      [] name = "identity" -> DefaultIdentity
      [] name = "error_model" -> DefaultErrorModel
      [] name = "glitches" -> DefaultGlitches

\* the attributes check_simulate_args adds to the namespace
DerivedNames ==
    {"mean_frag_length", "frag_length_stdev", "mean_identity", "max_identity",
     "identity_shape", "glitch_rate", "glitch_size", "glitch_skip"}

\* the namespace before parse_args() has run
NoArgs ==
    [n \in {"subparser_name"} \cup OptionNames \cup DerivedNames |->
        IF n = "subparser_name" THEN "" ELSE Unset]

\* argparse's value of one option: type=float converts the text given, a
\* default is taken as it is
OptionValue(opts, name) ==
    IF name \in FloatOptions
    THEN IF name \in DOMAIN opts THEN Float(opts[name]) ELSE DefaultPercent
    ELSE IF name \in DOMAIN opts THEN opts[name] ELSE StrDefault(name)

\* parser.parse_args() for a sub-command: the namespace it returns
Namespace(cmd, opts) ==
    [n \in DOMAIN NoArgs |->
        CASE n = "subparser_name" -> cmd
          [] n \in OptionNames /\ cmd = "simulate" -> OptionValue(opts, n)
          [] OTHER -> Unset]

\* argparse rejects the command line: an unknown sub-command, a required
\* option left out, or a type=float option whose text float() does not accept
ArgparseError(cmd, opts, complete) ==
    \/ cmd \notin {"simulate", "model", "plot", "-h", "--version"}
    \/ cmd \in {"simulate", "model", "plot"} /\ ~complete
    \/ /\ cmd = "simulate"
       /\ \E n \in FloatOptions \cap DOMAIN opts : Float(opts[n]) = ValueError

(***************************************************************************)
(* Messages.                                                               *)
(***************************************************************************)
MsgErrorModel == "Error: {} is not a file\n  --error_model must be \"random\", \"perfect\" or a filename"
MsgChimeras == "Error: --chimeras cannot be greater than 50"
MsgJunkReads == "Error: --junk_reads cannot be greater than 100"
MsgRandomReads == "Error: --random_reads cannot be greater than 100"
MsgJunkRandomSum == "Error: --junk_reads and --random_reads cannot sum to more than 100"
MsgLengthParse == "Error: could not parse --length values"
MsgMeanLength == "Error: mean read length must be at least {}"
MsgLengthStdev == "Error: read length stdev cannot be negative"
MsgIdentityParse == "Error: could not parse --identity values"
MsgMeanIdentityMax == "Error: mean read identity cannot be more than 100"
MsgMaxIdentityMax == "Error: max read identity cannot be more than 100"
MsgMeanIdentityMin == "Error: mean read identity must be at least {}"
MsgMaxIdentityMin == "Error: max read identity must be at least {}"
MsgMeanGtMax == "Error: mean identity ({}) cannot be larger than max identity ({})"
MsgIdentityShape == "Error: read identity shape must be a positive value"
MsgGlitchesParse == "Error: could not parse --glitches values"
MsgGlitchesNegative == "Error: --glitches must contain non-negative values"

(***************************************************************************)
(* The conditions of check_simulate_args, on the namespace a.              *)
(***************************************************************************)
\* pathlib.Path(p).is_file()
IsFile(p) == p \in fs

\* BadErrorModel with the lower-cased name looked up in the file system
BadErrorModelLowered(a) ==
    LET model == Lower(a.error_model) IN
    /\ model # <<"p", "e", "r", "f", "e", "c", "t">>
    /\ model # <<"r", "a", "n", "d", "o", "m">>
    /\ ~IsFile(model)

BadErrorModel(a) ==
    LET model == Lower(a.error_model) IN
    /\ model # <<"p", "e", "r", "f", "e", "c", "t">>
    /\ model # <<"r", "a", "n", "d", "o", "m">>
    /\ ~IsFile(a.error_model)

\* BadChimeras with the bound of a percentage
BadChimerasHundred(a) == Gt(a.chimeras, Num(100))

BadChimeras(a) == Gt(a.chimeras, Num(50))

BadJunkReads(a) == Gt(a.junk_reads, Num(100))

BadRandomReads(a) == Gt(a.random_reads, Num(100))

BadJunkRandomSum(a) == Gt(Add(a.junk_reads, a.random_reads), Num(100))

BadMeanLength(a) == Le(a.mean_frag_length, Num(settings.MIN_MEAN_READ_LENGTH))

BadLengthStdev(a) == Lt(a.frag_length_stdev, Num(0))

BadMeanIdentityMax(a) == Gt(a.mean_identity, Num(100))

BadMaxIdentityMax(a) == Gt(a.max_identity, Num(100))

BadMeanIdentityMin(a) == Le(a.mean_identity, Num(settings.MIN_MEAN_READ_IDENTITY))

BadMaxIdentityMin(a) == Le(a.max_identity, Num(settings.MIN_MEAN_READ_IDENTITY))

BadMeanGtMax(a) == Gt(a.mean_identity, a.max_identity)

BadIdentityShape(a) == Le(a.identity_shape, Num(0))

\* BadGlitches rejecting zero as well
BadGlitchesNonPositive(a) ==
    \/ Le(a.glitch_rate, Num(0))
    \/ Le(a.glitch_size, Num(0))
    \/ Le(a.glitch_skip, Num(0))

BadGlitches(a) ==
    \/ Lt(a.glitch_rate, Num(0))
    \/ Lt(a.glitch_size, Num(0))
    \/ Lt(a.glitch_skip, Num(0))

\* ParseAssign taking the last values of the list instead of the first
ParseAssignFromEnd(a, text, names) ==
    LET params == FloatList(text)
        shift == IF Len(params) > Len(names) THEN Len(params) - Len(names) ELSE 0
    IN
    IF RaisesValueError(text) THEN a
    ELSE [n \in DOMAIN a |->
            IF \E i \in 1..Len(names) : names[i] = n /\ i <= Len(params)
            THEN params[shift + CHOOSE i \in 1..Len(names) : names[i] = n]
            ELSE a[n]]

\* a try block: params = [float(x) for x in text.split(',')], then
\* args.<names[i]> = params[i] for each i in turn.  The namespace it leaves:
\* nothing is assigned on ValueError, the names before the missing index on
\* IndexError.
ParseAssign(a, text, names) ==
    LET params == FloatList(text) IN
    IF RaisesValueError(text) THEN a
    ELSE [n \in DOMAIN a |->
            IF \E i \in 1..Len(names) : names[i] = n /\ i <= Len(params)
            THEN params[CHOOSE i \in 1..Len(names) : names[i] = n]
            ELSE a[n]]

\* whether the try block raised ValueError or IndexError
ParseFails(text, names) ==
    RaisesValueError(text) \/ Len(FloatList(text)) < Len(names)

LengthNames == <<"mean_frag_length", "frag_length_stdev">>

IdentityNames == <<"mean_identity", "max_identity", "identity_shape">>

GlitchNames == <<"glitch_rate", "glitch_size", "glitch_skip">>

(***************************************************************************)
(* main()                                                                  *)
(***************************************************************************)
\* sys.exit(msg): the message goes to stderr and the status is 1
Exit(msg) ==
    /\ stderr' = Append(stderr, msg)
    /\ exit_code' = 1
    /\ pc' = "exited"

\* Check reporting a failure without exiting
CheckNoExit(here, fails, msg, next) ==
    /\ pc = here
    /\ evaluated' = Append(evaluated, here)
    /\ stderr' = IF fails THEN Append(stderr, msg) ELSE stderr
    /\ pc' = next
    /\ UNCHANGED <<argv, fs, settings, args, exit_code, invoked>>

\* one check of check_simulate_args: sys.exit(msg) when it fails, else on
\* to the next statement
Check(here, fails, msg, next) ==
    /\ pc = here
    /\ evaluated' = Append(evaluated, here)
    /\ IF fails THEN Exit(msg)
       ELSE pc' = next /\ UNCHANGED <<stderr, exit_code>>
    /\ UNCHANGED <<argv, fs, settings, args, invoked>>

\* one try block of check_simulate_args
Parse(here, text, names, msg, next) ==
    /\ pc = here
    /\ evaluated' = Append(evaluated, here)
    /\ args' = ParseAssign(args, text, names)
    /\ IF ParseFails(text, names) THEN Exit(msg)
       ELSE pc' = next /\ UNCHANGED <<stderr, exit_code>>
    /\ UNCHANGED <<argv, fs, settings, invoked>>

\* if len(sys.argv) == 1: parser.print_help(file=sys.stderr); sys.exit(1)
PrintHelp ==
    /\ pc = "main"
    /\ argv.cmd = ""
    /\ stderr' = Append(stderr, "help")
    /\ exit_code' = 1
    /\ pc' = "exited"
    /\ UNCHANGED <<argv, fs, settings, args, evaluated, invoked>>

\* args = parser.parse_args(): argparse exits with status 2 on an error and
\* with status 0 after -h or --version
ParseArgs ==
    /\ pc = "main"
    /\ argv.cmd # ""
    /\ IF ArgparseError(argv.cmd, argv.opts, argv.complete)
       THEN /\ stderr' = Append(stderr, "usage")
            /\ exit_code' = 2
            /\ pc' = "exited"
            /\ UNCHANGED args
       ELSE IF argv.cmd \in {"-h", "--version"}
       THEN /\ exit_code' = 0
            /\ pc' = "exited"
            /\ UNCHANGED <<args, stderr>>
       ELSE /\ args' = Namespace(argv.cmd, argv.opts)
            /\ pc' = "dispatch"
            /\ UNCHANGED <<stderr, exit_code>>
    /\ UNCHANGED <<argv, fs, settings, evaluated, invoked>>

\* EnterCheck going straight to the call of simulate
EnterCheckSkipped ==
    /\ pc = "dispatch"
    /\ args.subparser_name = "simulate"
    /\ pc' = "call_simulate"
    /\ UNCHANGED <<argv, fs, settings, args, stderr, exit_code, evaluated, invoked>>

\* if args.subparser_name == 'simulate': check_simulate_args(args)
EnterCheck ==
    /\ pc = "dispatch"
    /\ args.subparser_name = "simulate"
    /\ pc' = "error_model"
    /\ UNCHANGED <<argv, fs, settings, args, stderr, exit_code, evaluated, invoked>>

CheckErrorModel ==
    Check("error_model", BadErrorModel(args), MsgErrorModel, "chimeras")

CheckChimeras ==
    Check("chimeras", BadChimeras(args), MsgChimeras, "junk_reads")

CheckJunkReads ==
    Check("junk_reads", BadJunkReads(args), MsgJunkReads, "random_reads")

CheckRandomReads ==
    Check("random_reads", BadRandomReads(args), MsgRandomReads, "junk_random_sum")

CheckJunkRandomSum ==
    Check("junk_random_sum", BadJunkRandomSum(args), MsgJunkRandomSum, "length_parse")

ParseLength ==
    Parse("length_parse", args.length, LengthNames, MsgLengthParse, "mean_length")

CheckMeanLength ==
    Check("mean_length", BadMeanLength(args), MsgMeanLength, "length_stdev")

CheckLengthStdev ==
    Check("length_stdev", BadLengthStdev(args), MsgLengthStdev, "identity_parse")

ParseIdentity ==
    Parse("identity_parse", args.identity, IdentityNames, MsgIdentityParse,
          "mean_identity_max")

CheckMeanIdentityMax ==
    Check("mean_identity_max", BadMeanIdentityMax(args), MsgMeanIdentityMax,
          "max_identity_max")

CheckMaxIdentityMax ==
    Check("max_identity_max", BadMaxIdentityMax(args), MsgMaxIdentityMax,
          "mean_identity_min")

CheckMeanIdentityMin ==
    Check("mean_identity_min", BadMeanIdentityMin(args), MsgMeanIdentityMin,
          "max_identity_min")

CheckMaxIdentityMin ==
    Check("max_identity_min", BadMaxIdentityMin(args), MsgMaxIdentityMin,
          "mean_gt_max")

CheckMeanGtMax ==
    Check("mean_gt_max", BadMeanGtMax(args), MsgMeanGtMax, "identity_shape")

CheckIdentityShape ==
    Check("identity_shape", BadIdentityShape(args), MsgIdentityShape,
          "glitches_parse")

ParseGlitches ==
    Parse("glitches_parse", args.glitches, GlitchNames, MsgGlitchesParse,
          "glitches_negative")

CheckGlitches ==
    Check("glitches_negative", BadGlitches(args), MsgGlitchesNegative,
          "call_simulate")

\* an entry point of another module is called with args; main() then returns
Call(here, fn) ==
    /\ pc = here
    /\ invoked' = Append(invoked, [fn |-> fn, args |-> args])
    /\ exit_code' = 0
    /\ pc' = "done"
    /\ UNCHANGED <<argv, fs, settings, args, stderr, evaluated>>

\* from .simulate import simulate; simulate(args)
Simulate == Call("call_simulate", "simulate")

\* elif args.subparser_name == 'model': make_error_model(args)
MakeErrorModel ==
    /\ pc = "dispatch"
    /\ args.subparser_name = "model"
    /\ Call("dispatch", "make_error_model")

\* elif args.subparser_name == 'plot': plot_window_identity(args)
PlotWindowIdentity ==
    /\ pc = "dispatch"
    /\ args.subparser_name = "plot"
    /\ Call("dispatch", "plot_window_identity")

CheckSimulateArgs ==
    \/ CheckErrorModel \/ CheckChimeras \/ CheckJunkReads \/ CheckRandomReads
    \/ CheckJunkRandomSum \/ ParseLength \/ CheckMeanLength \/ CheckLengthStdev
    \/ ParseIdentity \/ CheckMeanIdentityMax \/ CheckMaxIdentityMax
    \/ CheckMeanIdentityMin \/ CheckMaxIdentityMin \/ CheckMeanGtMax
    \/ CheckIdentityShape \/ ParseGlitches \/ CheckGlitches

Next ==
    \/ PrintHelp
    \/ ParseArgs
    \/ EnterCheck
    \/ CheckSimulateArgs
    \/ Simulate
    \/ MakeErrorModel
    \/ PlotWindowIdentity


(***************************************************************************)
(* The command lines, file systems and settings of the model.              *)
(***************************************************************************)
\* the decimal text of a natural number
RECURSIVE NatText(_)
NatText(n) ==
    IF n < 10 THEN <<Digits[n + 1]>>
    ELSE NatText(n \div 10) \o <<Digits[(n % 10) + 1]>>

\* a text that float() reads as x
Repr(x) ==
    CASE x.k = "nan" -> <<"n", "a", "n">>
      [] x.k = "inf" -> <<"i", "n", "f">>
      [] x.k = "ninf" -> <<"-", "i", "n", "f">>
      [] x.v < 0 -> <<"-">> \o NatText(0 - x.v)
      [] OTHER -> NatText(x.v)

\* ','.join(parts)
RECURSIVE Join(_)
Join(parts) ==
    IF parts = <<>> THEN <<>>
    ELSE IF Len(parts) = 1 THEN parts[1]
    ELSE parts[1] \o <<",">> \o Join(Tail(parts))

\* the sequences over S of length at most n
RECURSIVE SeqsUpTo(_, _)
SeqsUpTo(S, n) ==
    IF n = 0 THEN {<<>>}
    ELSE LET shorter == SeqsUpTo(S, n - 1) IN
         shorter \cup {Append(q, x) : q \in shorter, x \in S}

\* what may follow the values an option needs: a number, a word, nothing
\* (a trailing comma)
ExtraParts == SeqsUpTo({<<"7">>, <<"x">>, <<>>}, MaxExtra)

\* the texts of a comma-separated option that needs the values of Values
\* (a set of sequences of floats): each with every tail of extra parts, each
\* cut short, and some that float() rejects or pads
ListTexts(Values) ==
    {Join([i \in 1..Len(vs) |-> Repr(vs[i])] \o extra) :
        vs \in Values, extra \in ExtraParts}
    \cup {Join([i \in 1..n |-> Repr(vs[i])]) :
        vs \in Values, n \in 1..2}
    \cup {<<>>, <<"x">>, <<"x", ",", "1">>, <<" ", "9", "0", " ", ",", "+", "9", "5", ",", "4">>}

SettingsChoices ==
    {[MIN_MEAN_READ_LENGTH |-> 100, MIN_MEAN_READ_IDENTITY |-> 50],
     [MIN_MEAN_READ_LENGTH |-> 1000, MIN_MEAN_READ_IDENTITY |-> 80]}

\* --chimeras, --junk_reads, --random_reads
ChimerasTexts ==
    {Repr(x) : x \in {Num(0 - 1), Num(0), Num(50), Num(51), Num(100), NaN}}
    \cup {<<"x">>}

JunkReadsTexts ==
    {Repr(x) : x \in {Num(0 - 1), Num(0), Num(50), Num(100), Num(101), NaN}}

RandomReadsTexts ==
    {Repr(x) : x \in {Num(0 - 1), Num(0), Num(50), Num(51), Num(101), NaN}}

\* --length: mean and stdev
LengthTexts(s) ==
    ListTexts({<<m, d>> :
        m \in {Num(s.MIN_MEAN_READ_LENGTH - 1), Num(s.MIN_MEAN_READ_LENGTH),
                Num(s.MIN_MEAN_READ_LENGTH + 1), NaN, Inf},
        d \in {Num(0 - 1), Num(0), Num(1), NaN, NInf}})

\* --identity: mean, max and shape
IdentityTexts(s) ==
    LET bound == {Num(s.MIN_MEAN_READ_IDENTITY), Num(s.MIN_MEAN_READ_IDENTITY + 1),
                  Num(100), Num(101), NaN}
    IN ListTexts({<<m, x, h>> : m \in bound, x \in bound, h \in {Num(0), Num(4), NaN}})

\* --glitches: rate, size and skip
GlitchesTexts ==
    ListTexts({<<r, z, k>> :
        r \in {Num(0 - 1), Num(0), Num(5000)}, z \in {Num(0 - 1), Num(0)},
        k \in {Num(0 - 1), Num(0), NaN}})

\* --error_model, and the file systems it is looked up in
ErrorModelTexts ==
    {<<"r", "a", "n", "d", "o", "m">>, <<"R", "a", "n", "d", "o", "m">>,
     <<"P", "E", "R", "F", "E", "C", "T">>, <<"m", ".", "t", "x", "t">>,
     <<"M", ".", "t", "x", "t">>, <<"p", "e", "r", "f", "e", "c", "t", "s">>}

FileSystems ==
    {{}, {<<"m", ".", "t", "x", "t">>},
     {<<"m", ".", "t", "x", "t">>, <<"p", "e", "r", "f", "e", "c", "t", "s">>}}

\* the values of one option: the texts it is given when it belongs to the
\* part of the command line that varies, and absent (its default) otherwise.
\* None stands for the option not being on the command line.
None == <<"\\absent">>

\* the options of a command line, the absent ones left out
Options(chosen) ==
    [n \in {m \in OptionNames : chosen[m] # None} |-> chosen[n]]

Parts == {"percent", "length", "identity", "glitches", "error_model", "artifact_free"}

\* the texts option name takes while part varies: every part but the last
\* varies its own options and leaves the others out; "artifact_free" sets all
\* artifact rates and the length spread to zero and varies the rest
OptionTexts(part, name, s) ==
    LET zero == Repr(Num(0))
        own(p, texts) == IF part = p THEN texts \cup {None} ELSE {None}
    IN
    IF part = "artifact_free"
    THEN CASE name \in FloatOptions -> {zero}
           [] name = "glitches" -> {Join(<<zero, zero, zero>>)}
           [] name = "length" ->
                {Join(<<Repr(Num(m)), zero>>) :
                    m \in {5000, s.MIN_MEAN_READ_LENGTH, s.MIN_MEAN_READ_LENGTH + 1}}
           [] name = "identity" ->
                {Join(<<Repr(Num(m)), Repr(Num(x)), Repr(Num(4))>>) :
                    m \in {90, s.MIN_MEAN_READ_IDENTITY}, x \in {95, 101}}
           [] name = "error_model" -> ErrorModelTexts
    ELSE CASE name = "chimeras" -> own("percent", ChimerasTexts)
           [] name = "junk_reads" -> own("percent", JunkReadsTexts)
           [] name = "random_reads" -> own("percent", RandomReadsTexts)
           [] name = "length" -> own("length", LengthTexts(s))
           [] name = "identity" -> own("identity", IdentityTexts(s))
           [] name = "glitches" -> own("glitches", GlitchesTexts)
           [] name = "error_model" -> own("error_model", ErrorModelTexts)

\* 'simulate' with the options of one part
SimulateInit ==
    \E part \in Parts, s \in SettingsChoices :
    \E c \in OptionTexts(part, "chimeras", s),
       j \in OptionTexts(part, "junk_reads", s),
       r \in OptionTexts(part, "random_reads", s),
       l \in OptionTexts(part, "length", s),
       i \in OptionTexts(part, "identity", s),
       g \in OptionTexts(part, "glitches", s),
       e \in OptionTexts(part, "error_model", s) :
    \E f \in IF part \in {"error_model", "artifact_free"} THEN FileSystems ELSE {{}},
       q \in IF part = "error_model" THEN BOOLEAN ELSE {TRUE} :
        /\ settings = s
        /\ fs = f
        /\ argv = [cmd |-> "simulate",
                   complete |-> q,
                   opts |-> Options([chimeras |-> c, junk_reads |-> j,
                                     random_reads |-> r, length |-> l,
                                     identity |-> i, glitches |-> g,
                                     error_model |-> e])]

\* no argument at all, the other sub-commands, help, version, an unknown word
OtherInit ==
    /\ settings \in SettingsChoices
    /\ fs = {}
    /\ argv \in [cmd : {"model", "plot", "-h", "--version", "bogus"},
                 opts : {<<>>}, complete : BOOLEAN]
               \cup {[cmd |-> "", opts |-> <<>>, complete |-> FALSE]}

Init ==
    /\ SimulateInit \/ OtherInit
    /\ pc = "main"
    /\ args = NoArgs
    /\ stderr = <<>>
    /\ exit_code = 0 - 1
    /\ evaluated = <<>>
    /\ invoked = <<>>

Spec == Init /\ [][Next]_vars


(***************************************************************************)
(* What the properties below speak of.                                     *)
(***************************************************************************)
\* main() has returned or exited
Terminal == pc \in {"exited", "done"}

\* the command line is a 'simulate' one that argparse accepts
SimulateRun ==
    argv.cmd = "simulate" /\ ~ArgparseError(argv.cmd, argv.opts, argv.complete)

\* the value argparse gives option n on this command line
Opt(n) == OptionValue(argv.opts, n)

SimulateCalled == \E i \in 1..Len(invoked) : invoked[i].fn = "simulate"

Reported(msg) == \E i \in 1..Len(stderr) : stderr[i] = msg

\* the checks of check_simulate_args in the order the source lists them
CheckOrder ==
    <<"error_model", "chimeras", "junk_reads", "random_reads", "junk_random_sum",
      "length_parse", "mean_length", "length_stdev", "identity_parse",
      "mean_identity_max", "max_identity_max", "mean_identity_min",
      "max_identity_min", "mean_gt_max", "identity_shape", "glitches_parse",
      "glitches_negative">>

MessageOf(name) ==
    CASE name = "error_model" -> MsgErrorModel
      [] name = "chimeras" -> MsgChimeras
      [] name = "junk_reads" -> MsgJunkReads
      [] name = "random_reads" -> MsgRandomReads
      [] name = "junk_random_sum" -> MsgJunkRandomSum
      [] name = "length_parse" -> MsgLengthParse
      [] name = "mean_length" -> MsgMeanLength
      [] name = "length_stdev" -> MsgLengthStdev
      [] name = "identity_parse" -> MsgIdentityParse
      [] name = "mean_identity_max" -> MsgMeanIdentityMax
      [] name = "max_identity_max" -> MsgMaxIdentityMax
      [] name = "mean_identity_min" -> MsgMeanIdentityMin
      [] name = "max_identity_min" -> MsgMaxIdentityMin
      [] name = "mean_gt_max" -> MsgMeanGtMax
      [] name = "identity_shape" -> MsgIdentityShape
      [] name = "glitches_parse" -> MsgGlitchesParse
      [] name = "glitches_negative" -> MsgGlitchesNegative

\* s is the lower-case word w in any mix of cases
SameWord(s, w) ==
    /\ Len(s) = Len(w)
    /\ \A i \in 1..Len(w) :
        \/ s[i] = w[i]
        \/ \E l \in 1..26 : LowerLetters[l] = w[i] /\ Upper[l] = s[i]

\* the error-model selector names a built-in model or a regular file
SelectorAccepted(em) ==
    \/ SameWord(em, <<"r", "a", "n", "d", "o", "m">>)
    \/ SameWord(em, <<"p", "e", "r", "f", "e", "c", "t">>)
    \/ em \in fs

\* the numbers of comma-separated option n
Numbers(n) == FloatList(Opt(n))

\* vals, the elements of a comma-separated option as float() reads them,
\* holds k numbers: no element is rejected and there are at least k
HoldsNumbers(vals, k) ==
    /\ \A i \in 1..Len(vals) : vals[i] # ValueError
    /\ Len(vals) >= k

Holds(n, k) == HoldsNumbers(Numbers(n), k)

\* the checks this command line violates, stated on the option values
ViolatedChecks ==
    LET L == Numbers("length")
        I == Numbers("identity")
        G == Numbers("glitches")
        okL == HoldsNumbers(L, 2)
        okI == HoldsNumbers(I, 3)
        okG == HoldsNumbers(G, 3)
        minLength == Num(settings.MIN_MEAN_READ_LENGTH)
        minIdentity == Num(settings.MIN_MEAN_READ_IDENTITY)
    IN
    {name \in {"error_model"} : ~SelectorAccepted(Opt("error_model"))}
    \cup {name \in {"chimeras"} : Gt(Opt("chimeras"), Num(50))}
    \cup {name \in {"junk_reads"} : Gt(Opt("junk_reads"), Num(100))}
    \cup {name \in {"random_reads"} : Gt(Opt("random_reads"), Num(100))}
    \cup {name \in {"junk_random_sum"} :
            Gt(Add(Opt("junk_reads"), Opt("random_reads")), Num(100))}
    \cup {name \in {"length_parse"} : ~okL}
    \cup {name \in {"mean_length"} : okL /\ Le(L[1], minLength)}
    \cup {name \in {"length_stdev"} : okL /\ Lt(L[2], Num(0))}
    \cup {name \in {"identity_parse"} : ~okI}
    \cup {name \in {"mean_identity_max"} : okI /\ Gt(I[1], Num(100))}
    \cup {name \in {"max_identity_max"} : okI /\ Gt(I[2], Num(100))}
    \cup {name \in {"mean_identity_min"} : okI /\ Le(I[1], minIdentity)}
    \cup {name \in {"max_identity_min"} : okI /\ Le(I[2], minIdentity)}
    \cup {name \in {"mean_gt_max"} : okI /\ Gt(I[1], I[2])}
    \cup {name \in {"identity_shape"} : okI /\ Le(I[3], Num(0))}
    \cup {name \in {"glitches_parse"} : ~okG}
    \cup {name \in {"glitches_negative"} : okG /\ \E i \in 1..3 : Lt(G[i], Num(0))}

\* the position in CheckOrder of the first check of V from i on, 0 when
\* there is none
RECURSIVE FirstOf(_, _)
FirstOf(V, i) ==
    IF i > Len(CheckOrder) THEN 0
    ELSE IF CheckOrder[i] \in V THEN i
    ELSE FirstOf(V, i + 1)

\* the texts that print the float x
Reprs(x) ==
    {Repr(x)} \cup
    (IF x.k \in {"nan", "inf"} \/ (x.k = "num" /\ x.v >= 0)
     THEN {<<"+">> \o Repr(x)} ELSE {})

\* the attributes names of the namespace a are, in order, the first values
\* of comma-separated option n
Positional(a, n, names) ==
    LET parts == Split(Opt(n), ",") IN
    \A i \in 1..Len(names) :
        Len(parts) >= i /\ Strip(parts[i]) \in Reprs(a[names[i]])

(***************************************************************************)
(* C1                                                                      *)
(***************************************************************************)
\* C1: whenever simulate(args) is invoked, args satisfies chimeras <= 50,
\* junk_reads + random_reads <= 100, junk_reads <= 100, random_reads <= 100
\* and frag_length_stdev >= 0.
C1_RangesGuaranteed ==
    \A i \in 1..Len(invoked) :
        invoked[i].fn = "simulate" =>
            LET a == invoked[i].args IN
            /\ Le(a.chimeras, Num(50))
            /\ Le(Add(a.junk_reads, a.random_reads), Num(100))
            /\ Le(a.junk_reads, Num(100))
            /\ Le(a.random_reads, Num(100))
            /\ Ge(a.frag_length_stdev, Num(0))

(***************************************************************************)
(* C2                                                                      *)
(***************************************************************************)
EntryPoint(name) ==
    CASE name = "simulate" -> "simulate"
      [] name = "model" -> "make_error_model"
      [] name = "plot" -> "plot_window_identity"
      [] OTHER -> "none"

\* C2: at most one entry point is invoked in a run, the one of the parsed
\* sub-command, and simulate only after every check of check_simulate_args
\* has been evaluated and none has exited.
C2_CheckedThenDispatched ==
    /\ Len(invoked) <= 1
    /\ \A i \in 1..Len(invoked) :
        /\ invoked[i].fn = EntryPoint(argv.cmd)
        /\ invoked[i].args.subparser_name = argv.cmd
        /\ invoked[i].fn = "simulate" => evaluated = CheckOrder /\ stderr = <<>>
    /\ evaluated # <<>> => argv.cmd = "simulate"

C2_Witness == SimulateCalled /\ evaluated = CheckOrder /\ pc = "done"

(***************************************************************************)
(* C3                                                                      *)
(***************************************************************************)
\* C3: when the simulate command line violates some check, the checks are
\* evaluated in the listed order up to the first violated one and no further,
\* the run ends with status 1 and that check's message as its only report,
\* and simulate is never invoked.
C3_FirstFailureReported ==
    SimulateRun =>
        LET k == FirstOf(ViolatedChecks, 1) IN
        k # 0 =>
            /\ ~SimulateCalled
            /\ Len(evaluated) <= k
            /\ evaluated = SubSeq(CheckOrder, 1, Len(evaluated))
            /\ Len(stderr) <= 1
            /\ pc # "done"
            /\ pc = "exited" =>
                /\ stderr = <<MessageOf(CheckOrder[k])>>
                /\ Len(evaluated) = k
                /\ exit_code = 1

C3_Witness ==
    /\ SimulateRun
    /\ pc = "exited"
    /\ stderr = <<MsgMeanGtMax>>
    /\ Len(evaluated) = 14

(***************************************************************************)
(* C4                                                                      *)
(***************************************************************************)
\* C4: check_simulate_args exits on the error-model selector exactly when it
\* is neither 'random' nor 'perfect' in any mix of cases nor an existing
\* regular file; a rejected selector never reaches simulate, and an accepted
\* one reaches it as it was given.
C4_ErrorModelSelector ==
    SimulateRun =>
        LET em == Opt("error_model") IN
        /\ evaluated # <<>> =>
            ((pc = "exited" /\ stderr = <<MsgErrorModel>>) <=> ~SelectorAccepted(em))
        /\ ~SelectorAccepted(em) => ~SimulateCalled
        /\ \A i \in 1..Len(invoked) :
            invoked[i].fn = "simulate" => invoked[i].args.error_model = em

C4_Witness ==
    /\ SimulateCalled
    /\ invoked[1].args.error_model = <<"R", "a", "n", "d", "o", "m">>

(***************************************************************************)
(* C5                                                                      *)
(***************************************************************************)
\* C5: every configuration handed to simulate has
\* MIN_MEAN_READ_IDENTITY < mean_identity <= max_identity <= 100 and
\* identity_shape > 0.
C5_IdentityBoundsConsistent ==
    \A i \in 1..Len(invoked) :
        invoked[i].fn = "simulate" =>
            LET a == invoked[i].args IN
            /\ Lt(Num(settings.MIN_MEAN_READ_IDENTITY), a.mean_identity)
            /\ Le(a.mean_identity, a.max_identity)
            /\ Le(a.max_identity, Num(100))
            /\ Gt(a.identity_shape, Num(0))

(***************************************************************************)
(* C6                                                                      *)
(***************************************************************************)
\* C6: no configuration handed to simulate has a negative junk_reads,
\* random_reads or chimeras, nor one above its maximum (100, 100, 50): a
\* negative value is rejected by check_simulate_args.
C6_PercentagesRangeChecked ==
    \A i \in 1..Len(invoked) :
        invoked[i].fn = "simulate" =>
            LET a == invoked[i].args IN
            /\ ~Lt(a.junk_reads, Num(0)) /\ ~Gt(a.junk_reads, Num(100))
            /\ ~Lt(a.random_reads, Num(0)) /\ ~Gt(a.random_reads, Num(100))
            /\ ~Lt(a.chimeras, Num(0)) /\ ~Gt(a.chimeras, Num(50))

(***************************************************************************)
(* C7                                                                      *)
(***************************************************************************)
\* chimeras, junk_reads, random_reads, the three glitch values and the
\* length stdev are all zero
ArtifactFree ==
    /\ SimulateRun
    /\ Opt("chimeras") = Num(0)
    /\ Opt("junk_reads") = Num(0)
    /\ Opt("random_reads") = Num(0)
    /\ Holds("glitches", 3)
    /\ \A i \in 1..3 : Numbers("glitches")[i] = Num(0)
    /\ Holds("length", 2)
    /\ Numbers("length")[2] = Num(0)

\* the checks of the mean length, the identity triple and the error model
OwnChecks ==
    {"error_model", "mean_length", "mean_identity_max", "max_identity_max",
     "mean_identity_min", "max_identity_min", "mean_gt_max", "identity_shape",
     "identity_parse"}

\* C7: a run whose artifact rates, glitch values and length stdev are all
\* zero reaches simulate without any report when its mean length, identity
\* triple and error model pass their checks; and the glitch values are only
\* ever rejected when one of them is strictly negative.
C7_ZeroIsAdmissible ==
    /\ (Terminal /\ ArtifactFree /\ ViolatedChecks \cap OwnChecks = {}) =>
            SimulateCalled /\ stderr = <<>>
    /\ (SimulateRun /\ Reported(MsgGlitchesNegative)) =>
            \E i \in 1..3 : Lt(Numbers("glitches")[i], Num(0))

C7_Witness ==
    /\ SimulateCalled
    /\ ArtifactFree
    /\ Opt("length") = <<"5", "0", "0", "0", ",", "0">>
    /\ Opt("identity") = <<"9", "0", ",", "9", "5", ",", "4">>
    /\ Opt("error_model") = <<"r", "a", "n", "d", "o", "m">>

(***************************************************************************)
(* C8                                                                      *)
(***************************************************************************)
\* chimeras=n, junk_reads=0, random_reads=0 and every other parameter valid
ChimeraScenario(n) ==
    /\ SimulateRun
    /\ Opt("chimeras") = Num(n)
    /\ Opt("junk_reads") = Num(0)
    /\ Opt("random_reads") = Num(0)
    /\ ViolatedChecks \subseteq {"chimeras"}

\* C8 (as stated): a run with chimeras=100, junk_reads=0, random_reads=0 and
\* all other parameters valid passes check_simulate_args and reaches
\* simulate(args).
C8_ChimeraScenarioRuns ==
    (Terminal /\ ChimeraScenario(100)) => SimulateCalled

\* C8 (amended): such a run with chimeras=100 exits with status 1 and the
\* report 'Error: --chimeras cannot be greater than 50' and never reaches
\* simulate; with chimeras=50 it reaches simulate(args).
C8_ChimerasAboveFiftyRejected ==
    /\ ChimeraScenario(100) => ~SimulateCalled
    /\ (Terminal /\ ChimeraScenario(100)) =>
            pc = "exited" /\ stderr = <<MsgChimeras>> /\ exit_code = 1
    /\ (Terminal /\ ChimeraScenario(50)) => SimulateCalled /\ stderr = <<>>

C8_Witness == pc = "exited" /\ ChimeraScenario(100) /\ Reported(MsgChimeras)

(***************************************************************************)
(* C9                                                                      *)
(***************************************************************************)
\* C9: a mean length equal to MIN_MEAN_READ_LENGTH, and a mean or max
\* identity equal to MIN_MEAN_READ_IDENTITY, is not rejected for being below
\* the minimum.
C9_MinimumInclusive ==
    SimulateRun =>
        /\ (Holds("length", 2)
            /\ Numbers("length")[1] = Num(settings.MIN_MEAN_READ_LENGTH))
                => ~Reported(MsgMeanLength)
        /\ (Holds("identity", 3)
            /\ Numbers("identity")[1] = Num(settings.MIN_MEAN_READ_IDENTITY))
                => ~Reported(MsgMeanIdentityMin)
        /\ (Holds("identity", 3)
            /\ Numbers("identity")[2] = Num(settings.MIN_MEAN_READ_IDENTITY))
                => ~Reported(MsgMaxIdentityMin)

(***************************************************************************)
(* C10                                                                     *)
(***************************************************************************)
\* the try block of option n was evaluated
Tried(n) ==
    \E i \in 1..Len(evaluated) :
        evaluated[i] = CASE n = "length" -> "length_parse"
                         [] n = "identity" -> "identity_parse"
                         [] n = "glitches" -> "glitches_parse"

ParseMessage(n) ==
    CASE n = "length" -> MsgLengthParse
      [] n = "identity" -> MsgIdentityParse
      [] n = "glitches" -> MsgGlitchesParse

Needed(n) == IF n = "length" THEN 2 ELSE 3

\* C10: in every configuration handed to simulate the derived attributes
\* are, in order, the first two values of --length and the first three of
\* --identity and of --glitches; a try block exits with 'could not parse'
\* exactly when an element is not a number or fewer values than needed are
\* given, further values being ignored; and the options the user gave keep
\* their values throughout check_simulate_args.
C10_PositionalParsing ==
    SimulateRun =>
        /\ \A i \in 1..Len(invoked) :
            invoked[i].fn = "simulate" =>
                LET a == invoked[i].args IN
                /\ Positional(a, "length", LengthNames)
                /\ Positional(a, "identity", IdentityNames)
                /\ Positional(a, "glitches", GlitchNames)
                /\ \A n \in OptionNames : a[n] = Opt(n)
        /\ pc # "main" => \A n \in OptionNames : args[n] = Opt(n)
        /\ \A n \in {"length", "identity", "glitches"} :
            Tried(n) =>
                (Reported(ParseMessage(n)) <=>
                    (\/ \E i \in 1..Len(Split(Opt(n), ",")) :
                            Float(Split(Opt(n), ",")[i]) = ValueError
                     \/ Len(Split(Opt(n), ",")) < Needed(n)))

C10_Witness ==
    /\ SimulateCalled
    /\ Len(Split(Opt("length"), ",")) > 2
    /\ Len(Split(Opt("glitches"), ",")) = 3

=============================================================================
